---- MODULE Spec2Model ----
(***************************************************************************)
(* Exercise tracker REST API (server.js): an express application over a    *)
(* mongoose User collection with embedded exercises.                       *)
(*                                                                         *)
(* State: the User collection, the create-user requests that have done     *)
(* their findOne and not yet their save, the last request/response         *)
(* exchange, and two records of what clients were told.                    *)
(*                                                                         *)
(* A handler step is one store operation together with the request-local   *)
(* code around it.  addExerciseHandler and getUserHandler perform exactly  *)
(* one store operation each (findByIdAndUpdate, findById), so each is one  *)
(* action; createUserHandler performs two (findOne, save) and is two       *)
(* actions, between which other requests interleave.                       *)
(*                                                                         *)
(* Optional JavaScript values are sequences: <<>> is undefined/null and    *)
(* <<v>> is the value v.  Time is counted in ticks, TicksPerDay to a day.  *)
(***************************************************************************)
EXTENDS Integers, Sequences, FiniteSets, Bags, TLC

VARIABLES users, creating, res, tz, added, reported

vars == <<users, creating, res, tz, added, reported>>

\* ---------------------------------------------------------------- bounds
\* Most users stored together with create-user requests on their way to
\* save(), most exercises stored over all users, and the ticks in a day.
MaxUsers == 2
MaxEx == 2
TicksPerDay == 2

\* ---------------------------------------------------------------- values
Undefined == <<>>

Some(v) == <<v>>

IsDefined(o) == o # Undefined

Val(o) == o[1]

\* The timestamp of an Invalid Date (NaN).
InvalidDate == -1

\* A midnight (UTC) and an instant later in that day.
FirstTime == TicksPerDay

Times == {FirstTime, FirstTime + 1}

TZOffsets == {-1, 0, 1}

Usernames == {Undefined, Some(""), Some("alice"), Some("bob")}

\* A well-formed add-exercise body dated t.
ValidBody(t) ==
    [description |-> Some("run"), duration |-> Some("30"), date |-> Some(t)]

\* Bodies that differ from a well-formed one in a single field: description
\* missing, duration missing or not a number, date absent or unparseable.
BadBodies ==
    {[ValidBody(FirstTime) EXCEPT !.description = Undefined],
     [ValidBody(FirstTime) EXCEPT !.duration = Undefined],
     [ValidBody(FirstTime) EXCEPT !.duration = Some("abc")],
     [ValidBody(FirstTime) EXCEPT !.date = Undefined],
     [ValidBody(FirstTime) EXCEPT !.date = Some(InvalidDate)]}

AddBodies == {ValidBody(t) : t \in Times} \cup BadBodies

FewBodies ==
    {ValidBody(FirstTime), [ValidBody(FirstTime) EXCEPT !.date = Some(InvalidDate)]}

DateQueries == {Undefined} \cup {Some(t) : t \in Times}

LimitQueries == {Undefined} \cup {Some(n) : n \in -1 .. MaxEx}

UserIds == 1 .. MaxUsers

NoRes == [op |-> "none", status |-> 0]

\* ---------------------------------------------------------------- dates
\* Date.prototype.toDateString: the calendar day of t in the server's zone.
toDateString(t) == (t + tz) \div TicksPerDay

\* new Date("Mon Jan 01 2024"): local midnight of that calendar day.
ParseDateString(day) == day * TicksPerDay - tz

\* ---------------------------------------------------------------- schema
\* SchemaNumber cast of a body field: a failed cast leaves the path unset.
CastNumber(raw) ==
    IF raw = Some("30") THEN Some(30) ELSE Undefined

\* SchemaDate cast: an Invalid Date fails the cast and leaves the path unset.
CastDate(d) ==
    IF d = InvalidDate THEN Undefined ELSE Some(d)

\* new Exercise({description, duration, date}); nothing is validated here.
NewExercise(description, duration, date, now) ==
    [description |-> description,
     duration |-> CastNumber(duration),
     date |-> IF IsDefined(date) THEN CastDate(Val(date)) ELSE CastDate(now)]

\* new User({name}): count defaults to 0, exercises to the empty array.
NewUser(id, name) ==
    [_id |-> id, name |-> name, count |-> 0, exercises |-> <<>>]

\* The required validator of userSchema.name, run by save().
ValidateUser(username) ==
    IF username = Undefined \/ username = Some("")
    THEN <<"Path name is required.">>
    ELSE <<>>

\* ---------------------------------------------------------------- store
\* A lookup by a field no document has: it matches nothing.
FindOneByUsername(username) == Undefined

\* User.findOne({name}): the first document whose name matches, or null.
FindOne(username) ==
    LET hits == {i \in DOMAIN users :
                    IsDefined(username) /\ users[i].name = Val(username)}
    IN IF hits = {} THEN Undefined
       ELSE Some(users[CHOOSE i \in hits : \A j \in hits : i <= j])

\* User.findById(id): the document with that _id, or null.
FindById(id) ==
    LET hits == {i \in DOMAIN users : users[i]._id = id}
    IN IF hits = {} THEN Undefined ELSE Some(users[CHOOSE i \in hits : TRUE])

RECURSIVE StoredExercises(_)
\* The number of exercises stored in the first n user documents.
StoredExercises(n) ==
    IF n = 0 THEN 0 ELSE Len(users[n].exercises) + StoredExercises(n - 1)

\* shortid.generate: an id no stored document carries.
GenerateId == Len(users) + 1

\* An update document without its $inc.
ApplyUpdatePushOnly(u, exercise) ==
    [u EXCEPT !.exercises = Append(@, exercise)]

\* The update document {$push: {exercises}, $inc: {count: 1}} applied to
\* one user document, as one atomic store operation.
ApplyUpdate(u, exercise) ==
    [u EXCEPT !.exercises = Append(@, exercise), !.count = @ + 1]

\* User.findByIdAndUpdate(id, update, {new: true}): the collection after it.
FindByIdAndUpdate(id, exercise) ==
    [i \in DOMAIN users |->
        IF users[i]._id = id THEN ApplyUpdate(users[i], exercise) ELSE users[i]]

\* ---------------------------------------------------------------- errors
ValidationError(messages) ==
    [errors |-> messages, status |-> 0, message |-> "User validation failed"]

TypeError ==
    [errors |-> <<>>, status |-> 0, message |-> "Cannot read property of null"]

RangeError ==
    [errors |-> <<>>, status |-> 0, message |-> "Invalid array length"]

\* The application's layers in the order app.use/app.post/app.get add them.
Stack ==
    <<"notFound", "errorHandler", "createUser", "addExercise", "getLogs",
      "getAllUsers">>

\* The error-handling middleware (the one layer taking four arguments).
ErrorMiddleware(err) ==
    IF err.errors # <<>>
    THEN [status |-> 400, body |-> Head(err.errors), by |-> "errorHandler"]
    ELSE [status |-> IF err.status # 0 THEN err.status ELSE 500,
          body |-> IF err.message # "" THEN err.message
                   ELSE "Internal Server Error",
          by |-> "errorHandler"]

\* What express answers when no error-handling layer follows the route.
FinalHandler(err) ==
    [status |-> IF err.status \in 400 .. 599 THEN err.status ELSE 500,
     body |-> "error page",
     by |-> "finalhandler"]

\* next(err) called by the route route: express hands the error to the
\* first error-handling layer registered after that route.
NextErr(route, err) ==
    LET at == CHOOSE i \in DOMAIN Stack : Stack[i] = route
    IN IF \E i \in DOMAIN Stack : i > at /\ Stack[i] = "errorHandler"
       THEN ErrorMiddleware(err)
       ELSE FinalHandler(err)

ErrorResponse(op, req, reply) ==
    [op |-> op, req |-> req, status |-> reply.status, body |-> reply.body,
     by |-> reply.by]

\* ---------------------------------------------------------------- init
Init ==
    /\ users = <<>>
    /\ creating = EmptyBag
    /\ res = NoRes
    /\ tz \in TZOffsets
    /\ added = [i \in UserIds |-> <<>>]
    /\ reported = [n \in {"alice", "bob"} |-> {}]

\* ---------------------------------------------------------------- create
\* createUserHandler up to the end of await User.findOne: an existing
\* user is answered at once; otherwise the request goes on to save().
CreateFindOne(username) ==
    LET user == FindOne(username)
    IN IF IsDefined(user)
       THEN /\ res' = [op |-> "create", req |-> [username |-> username],
                       status |-> 200, _id |-> Val(user)._id,
                       username |-> Val(user).name, count |-> Val(user).count]
            /\ reported' = [reported EXCEPT ![Val(user).name] =
                                @ \cup {[status |-> 200, _id |-> Val(user)._id]}]
            /\ UNCHANGED <<users, creating, tz, added>>
       ELSE /\ Len(users) + BagCardinality(creating) < MaxUsers
            /\ creating' = creating (+) SetToBag({username})
            /\ UNCHANGED <<users, res, tz, added, reported>>

\* createUserHandler from new User on: save() validates, then inserts.
CreateSave(username) ==
    /\ BagIn(username, creating)
    /\ creating' = creating (-) SetToBag({username})
    /\ LET errors == ValidateUser(username)
       IN IF errors # <<>>
          THEN /\ res' = ErrorResponse("create", [username |-> username],
                             NextErr("createUser", ValidationError(errors)))
               /\ UNCHANGED <<users, reported>>
          ELSE /\ LET newUser == NewUser(GenerateId, Val(username))
                  IN /\ users' = Append(users, newUser)
                     /\ res' = [op |-> "create",
                                req |-> [username |-> username],
                                status |-> 201, _id |-> newUser._id,
                                username |-> newUser.name]
                     /\ reported' = [reported EXCEPT ![newUser.name] =
                            @ \cup {[status |-> 201, _id |-> newUser._id]}]
    /\ UNCHANGED <<tz, added>>

\* ---------------------------------------------------------------- add
\* addExerciseHandler.  The update is applied before the response is built,
\* so an error raised while building the response leaves the update in place.
AddExercise(id, description, duration, date, now) ==
    LET exercise == NewExercise(description, duration, date, now)
        user == FindById(id)
        req == [_id |-> id, description |-> description, duration |-> duration]
    IN IF ~IsDefined(user)
       THEN /\ res' = ErrorResponse("add", req, NextErr("addExercise", TypeError))
            /\ UNCHANGED <<users, creating, tz, added, reported>>
       ELSE /\ StoredExercises(Len(users)) < MaxEx
            /\ users' = FindByIdAndUpdate(id, exercise)
            /\ res' = IF ~IsDefined(exercise.date)
                      THEN ErrorResponse("add", req,
                               NextErr("addExercise", TypeError))
                      ELSE [op |-> "add", req |-> req, status |-> 201,
                            username |-> Val(user).name,
                            description |-> exercise.description,
                            duration |-> exercise.duration,
                            _id |-> Val(user)._id,
                            date |-> toDateString(Val(exercise.date))]
            /\ added' = [added EXCEPT ![id] = Append(@,
                            [status |-> res'.status,
                             description |-> exercise.description,
                             duration |-> exercise.duration,
                             date |-> IF res'.status = 201
                                      THEN Some(res'.date) ELSE Undefined])]
            /\ UNCHANGED <<creating, tz, reported>>

\* ---------------------------------------------------------------- logs
\* exercises.map(ex => ({description, duration, date: ex.date.toDateString()}))
MapLog(exercises) ==
    [i \in DOMAIN exercises |->
        [description |-> exercises[i].description,
         duration |-> exercises[i].duration,
         date |-> toDateString(Val(exercises[i].date))]]

\* The filter callback: the entry's date string is parsed back to a Date
\* and compared with the bounds.
FilterLog(log, from, to) ==
    LET Keep(ex) ==
            LET exDate == ParseDateString(ex.date)
            IN /\ ~(IsDefined(from) /\ exDate < Val(from))
               /\ ~(IsDefined(to) /\ exDate > Val(to))
    IN IF IsDefined(from) \/ IsDefined(to) THEN SelectSeq(log, Keep) ELSE log

\* limit && limit < log.length: whether log.length is assigned.
LimitApplies(log, limit) ==
    IsDefined(limit) /\ Val(limit) # 0 /\ Val(limit) < Len(log)

\* log.length = limit
Truncate(log, limit) == SubSeq(log, 1, Val(limit))

\* The count taken from the filtered log instead of the stored exercises.
ResponseCountOfLog(userClone, log) ==
    IF IsDefined(log) THEN Len(Val(log)) ELSE 0

\* The count field of the 200 response.
ResponseCount(userClone, log) == Len(userClone.exercises)

\* getUserHandler from the result of findById to the response.
GetUserResponse(id, from, to, limit) ==
    LET user == FindById(id)
        req == [_id |-> id, from |-> from, to |-> to, limit |-> limit]
        Fail(err) == ErrorResponse("logs", req, NextErr("getLogs", err))
    IN IF ~IsDefined(user) THEN Fail(TypeError)
       ELSE LET userClone == Val(user)
                exercises == userClone.exercises
            IN IF Len(exercises) = 0
               THEN [op |-> "logs", req |-> req, status |-> 200,
                     _id |-> userClone._id, username |-> userClone.name,
                     count |-> ResponseCount(userClone, Undefined),
                     log |-> Undefined]
               ELSE IF \E i \in DOMAIN exercises : ~IsDefined(exercises[i].date)
               THEN Fail(TypeError)
               ELSE LET filtered == FilterLog(MapLog(exercises), from, to)
                    IN IF LimitApplies(filtered, limit) /\ Val(limit) < 0
                       THEN Fail(RangeError)
                       ELSE LET log == IF LimitApplies(filtered, limit)
                                       THEN Truncate(filtered, limit)
                                       ELSE filtered
                            IN [op |-> "logs", req |-> req, status |-> 200,
                                _id |-> userClone._id,
                                username |-> userClone.name,
                                count |-> ResponseCount(userClone, Some(log)),
                                log |-> Some(log)]

GetLogs(id, from, to, limit) ==
    /\ res' = GetUserResponse(id, from, to, limit)
    /\ UNCHANGED <<users, creating, tz, added, reported>>

\* ---------------------------------------------------------------- specs
\* All four handler steps under concurrent requests, over every kind of
\* username and every user id, with few kinds of exercise and no filters.
DoCreateFindOne == \E username \in Usernames : CreateFindOne(username)

DoCreateSave == \E username \in Usernames : CreateSave(username)

DoAddExercise ==
    \E id \in UserIds, body \in FewBodies :
        AddExercise(id, body.description, body.duration, body.date, FirstTime)

DoGetLogs == \E id \in UserIds : GetLogs(id, Undefined, Undefined, Undefined)

Next ==
    \/ DoCreateFindOne
    \/ DoCreateSave
    \/ DoAddExercise
    \/ DoGetLogs

Spec == Init /\ [][Next]_vars

\* Requests issued one after another: a request starts only when no
\* create-user request is between its findOne and its save.
SeqCreateFindOne == creating = EmptyBag /\ DoCreateFindOne

SeqAddExercise == creating = EmptyBag /\ DoAddExercise

SeqGetLogs == creating = EmptyBag /\ DoGetLogs

NextSeq ==
    \/ SeqCreateFindOne
    \/ DoCreateSave
    \/ SeqAddExercise
    \/ SeqGetLogs

SeqSpec == Init /\ [][NextSeq]_vars

\* The exercise log of the first user, with requests issued one after
\* another: every kind of add-exercise body and every combination of from,
\* to and limit.
LogCreateFindOne == creating = EmptyBag /\ CreateFindOne(Some("alice"))

LogCreateSave == CreateSave(Some("alice"))

LogAddExercise ==
    \E body \in AddBodies, now \in Times :
        /\ IsDefined(body.date) => now = FirstTime
        /\ AddExercise(1, body.description, body.duration, body.date, now)

LogGetLogs ==
    \E from \in DateQueries, to \in DateQueries, limit \in LimitQueries :
        GetLogs(1, from, to, limit)

NextLog ==
    \/ LogCreateFindOne
    \/ LogCreateSave
    \/ LogAddExercise
    \/ LogGetLogs

LogSpec == Init /\ [][NextLog]_vars

\* ---------------------------------------------------------------- claims
ValidNames == {"alice", "bob"}

Stored(name) == {i \in DOMAIN users : users[i].name = name}

Exists(id) == IsDefined(FindById(id))

\* C1: in every reachable state, under any interleaving of create-user and
\* add-exercise requests (failing ones included), every stored user's count
\* equals the length of its exercises sequence.
C1_CountEqualsLength ==
    \A i \in DOMAIN users : users[i].count = Len(users[i].exercises)

\* C1 witness: a user holds two exercises, the last add-exercise request
\* failed, and a create-user request is between its findOne and its save.
C1_Witness ==
    /\ \E i \in DOMAIN users : Len(users[i].exercises) >= 2
    /\ res.op = "add" /\ res.status = 500
    /\ creating # EmptyBag

\* What create-user responses and the store say of each name.
C2_CreateState ==
    /\ \A n \in ValidNames :
          /\ reported[n] # {} =>
                /\ Cardinality(Stored(n)) = 1
                /\ \A r \in reported[n], i \in Stored(n) : r._id = users[i]._id
          /\ (\E r \in reported[n] : r.status = 200) =>
                (\E r \in reported[n] : r.status = 201)
          /\ Cardinality({r \in reported[n] : r.status = 201}) <= 1
    /\ (res.op = "create" /\ res.status \in {200, 201}) =>
          /\ res.username = Val(res.req.username)
          /\ [status |-> res.status, _id |-> res._id] \in reported[res.username]

\* What a step that answers a create-user request does to the store.
C2_CreateStep ==
    /\ (res'.op = "create" /\ res'.status = 200) => users' = users
    /\ (res'.op = "create" /\ users' # users) =>
          /\ res'.status = 201
          /\ users' = Append(users, users'[Len(users')])
          /\ users'[Len(users')]._id = res'._id
          /\ \A i \in DOMAIN users :
                users[i]._id # res'._id /\ users[i].name # res'.username
          /\ reported[res'.username] = {}

\* C2: with requests issued one after another, the first create-user request
\* for a name answers 201 with a fresh id and stores exactly one user; every
\* later one for that name answers 200 with the same id and name and leaves
\* the stored users unchanged.
C2_CreateIdempotent == [](C2_CreateState) /\ [][C2_CreateStep]_vars

\* C2 witness: two names are stored and a repeated create-user request has
\* just been answered 200.
C2_Witness ==
    /\ Len(users) = 2
    /\ res.op = "create" /\ res.status = 200
    /\ \E r \in reported[res.username] : r.status = 201

\* C3: after N add-exercise requests against one existing user that all
\* succeeded, get-logs without filters reports count = N and a log of
\* length N holding the entries in the order the requests were applied.
C3_LogInCallOrder ==
    (/\ res.op = "logs"
     /\ res.req.from = Undefined /\ res.req.to = Undefined
     /\ res.req.limit = Undefined
     /\ Exists(res.req._id)
     /\ \A k \in DOMAIN added[res.req._id] : added[res.req._id][k].status = 201)
    => LET calls == added[res.req._id]
       IN /\ res.status = 200
          /\ res.count = Len(calls)
          /\ res.log = Some([k \in DOMAIN calls |->
                               [description |-> calls[k].description,
                                duration |-> calls[k].duration,
                                date |-> Val(calls[k].date)]])

\* C4: add-exercise and get-logs naming a user id that is not stored are
\* answered 404.
C4_MissingUser404 ==
    (res.op \in {"add", "logs"} /\ ~Exists(res.req._id)) => res.status = 404

\* An add-exercise exchange whose description or duration is unusable.
C5_BadBody(r) ==
    /\ r.op = "add"
    /\ r.req.description = Undefined \/ CastNumber(r.req.duration) = Undefined

C5_State == (C5_BadBody(res) /\ Exists(res.req._id)) => res.status = 400

C5_Step == (C5_BadBody(res') /\ Exists(res'.req._id)) => users' = users

\* C5: add-exercise against an existing user with description or duration
\* missing or of the wrong type is answered 400 and leaves the user's
\* exercises and count unchanged.
C5_BadBodyRejected == [](C5_State) /\ [][C5_Step]_vars

\* A create-user exchange whose username is missing or empty.
C6_BadName(r) == r.op = "create" /\ ValidateUser(r.req.username) # <<>>

C6_State ==
    C6_BadName(res) =>
        /\ res.status = 400
        /\ res.body = Head(ValidateUser(res.req.username))
        /\ res.by = "errorHandler"

C6_Step == C6_BadName(res') => users' = users

\* C6: create-user with a missing or empty username is answered 400 with the
\* first validation message, formatted by the error-handling middleware, and
\* no user is persisted.
C6_BadNameRejected == [](C6_State) /\ [][C6_Step]_vars

\* The log the claim C7 describes: the exercises in insertion order whose
\* stored date d has from <= d and d <= to, cut to the first limit entries.
C7_ClaimedLog(exercises, from, to, limit) ==
    LET InRange(ex) ==
            /\ IsDefined(from) => Val(from) <= Val(ex.date)
            /\ IsDefined(to) => Val(ex.date) <= Val(to)
        kept == MapLog(SelectSeq(exercises, InRange))
    IN IF IsDefined(limit) /\ Val(limit) < Len(kept)
       THEN SubSeq(kept, 1, Val(limit))
       ELSE kept

\* C7: for an existing user and every from, to and positive limit, the log
\* of get-logs is the user's exercises in insertion order restricted to
\* from <= date <= to (inclusive), cut to its first limit entries.
C7_LogIsFiltered ==
    (/\ res.op = "logs" /\ res.status = 200
     /\ IsDefined(res.req.limit) => Val(res.req.limit) > 0)
    => res.log = Some(C7_ClaimedLog(Val(FindById(res.req._id)).exercises,
                                    res.req.from, res.req.to, res.req.limit))

\* C8: the count of every get-logs response for an existing user is the
\* total number of exercises stored for that user, whatever the filters and
\* however many entries the log holds.
C8_CountIsTotal ==
    (res.op = "logs" /\ res.status = 200) =>
        LET user == Val(FindById(res.req._id))
        IN /\ res.count = Len(user.exercises)
           /\ res.count = user.count
           /\ res.count = Len(added[res.req._id])

\* C8 witness: a filtered, limited get-logs response whose log is shorter
\* than its count.
C8_Witness ==
    /\ res.op = "logs" /\ res.status = 200
    /\ IsDefined(res.req.from) /\ IsDefined(res.req.limit)
    /\ IsDefined(res.log) /\ Len(Val(res.log)) < res.count
    /\ res.count >= 2

\* C9: under any interleaving of concurrent create-user requests with the
\* same name the store holds at most one user of that name and all of the
\* requests report the same id.
C9_NameUnique ==
    \A n \in ValidNames :
        /\ Cardinality(Stored(n)) <= 1
        /\ Cardinality({r._id : r \in reported[n]}) <= 1

\* C10: every 200 response of get-logs carries a log that is an array of
\* length at most count; a user with no exercises yields count = 0 and the
\* empty array.
C10_LogIsArray ==
    (res.op = "logs" /\ res.status = 200) =>
        /\ IsDefined(res.log)
        /\ Len(Val(res.log)) <= res.count
        /\ res.count = 0 => res.log = Some(<<>>)

====
